---- MODULE Spec2Model ----
(***************************************************************************)
(* Model of the DNS zone-transfer result parser of the dnsaxfr collector   *)
(* (src/kis/collectors/os/modules/dns/dnsaxfr.py, CollectorClass).         *)
(*                                                                         *)
(* A text is a sequence of tokens: a token is a maximal run of whitespace  *)
(* (" "), a single dot ("."), or a run of other characters.  A line of the *)
(* command output is a text.  The store tables are bags of rows, so that a *)
(* row inserted twice is visible as a second copy.                         *)
(***************************************************************************)
EXTENDS Integers, Sequences, FiniteSets, Bags, TLC

\* Longest command output (number of lines) the model explores.
MaxLines == 2
\* Number of times verify_results is run over the same output.
MaxRuns == 2

None == "None"

-----------------------------------------------------------------------------
(* Token classes and string helpers                                        *)

\* \s+ : a run of whitespace
IsSpace(t) == t = " "

\* \d+ : a run of digits
IsDigits(t) == t \in {"3600", "10"}

\* [A-Z]+ under re.IGNORECASE : a run of letters
IsAlpha(t) == t \in {"IN", "in", "A", "a", "AAAA", "CNAME", "MX", "TXT", "SRV"}

\* str.lower()
Lower(t) ==
    CASE t = "IN" -> "in"
      [] t = "A" -> "a"
      [] t = "AAAA" -> "aaaa"
      [] t = "CNAME" -> "cname"
      [] t = "MX" -> "mx"
      [] t = "TXT" -> "txt"
      [] t = "SRV" -> "srv"
      [] OTHER -> t

RECURSIVE LStrip(_, _)
LStrip(text, chars) ==
    IF text # << >> /\ Head(text) \in chars THEN LStrip(Tail(text), chars) ELSE text

RECURSIVE RStrip(_, _)
RStrip(text, chars) ==
    IF text # << >> /\ text[Len(text)] \in chars
    THEN RStrip(SubSeq(text, 1, Len(text) - 1), chars)
    ELSE text

\* str.strip(chars): drops the leading and the trailing characters in chars
Strip(text, chars) == RStrip(LStrip(text, chars), chars)

Whitespace == {" "}
DotSpace == {".", " "}

-----------------------------------------------------------------------------
(* self._re_entry                                                          *)
(* ^(?P<hostname>.+?)\.\s+\d+\s+IN\s+(?P<type>[A-Z]+)\s+(\d+\s)?(?P<content>.+)$ *)

\* the pattern matches with the hostname group being the first k tokens
MatchesAt(line, k) ==
    /\ k >= 1
    /\ Len(line) >= k + 9
    /\ line[k + 1] = "."
    /\ IsSpace(line[k + 2])
    /\ IsDigits(line[k + 3])
    /\ IsSpace(line[k + 4])
    /\ Lower(line[k + 5]) = "in"
    /\ IsSpace(line[k + 6])
    /\ IsAlpha(line[k + 7])
    /\ IsSpace(line[k + 8])

Matches(line) == \E k \in 1..Len(line) : MatchesAt(line, k)

\* .+? is lazy: the shortest hostname for which the rest matches
HostEnd(line) == CHOOSE k \in 1..Len(line) :
    MatchesAt(line, k) /\ \A j \in 1..(k - 1) : ~MatchesAt(line, j)

\* (\d+\s)? is greedy but must leave at least one character for content
HasPriority(line, k) ==
    /\ Len(line) >= k + 11
    /\ IsDigits(line[k + 9])
    /\ IsSpace(line[k + 10])

re_entry(line) ==
    IF Matches(line)
    THEN LET k == HostEnd(line)
             c == IF HasPriority(line, k) THEN k + 11 ELSE k + 9
         IN [matched |-> TRUE,
             hostname |-> SubSeq(line, 1, k),
             type |-> <<line[k + 7]>>,
             content |-> SubSeq(line, c, Len(line))]
    ELSE [matched |-> FALSE, hostname |-> << >>, type |-> << >>, content |-> << >>]

-----------------------------------------------------------------------------
(* Command output the model draws from                                     *)

Rec(owner, cls, type, rdata) == <<owner, ".", " ", "3600", " ", cls, " ", type, " ">> \o rdata

Lines == {
    Rec("www.example.com", "IN", "A", <<"10.0.0.5">>),
    Rec("www.example.com", "IN", "A", <<"2001:db8::1">>),
    Rec("www.example.com", "IN", "AAAA", <<"2001:db8::1">>),
    Rec("mail.example.com", "IN", "AAAA", <<"10.0.0.5", " ">>),
    Rec("www.example.com", "in", "a", <<"mail.example.com">>),
    Rec("alias.example.com", "IN", "CNAME", <<"www.example.com", ".">>),
    Rec("alias.example.com", "IN", "CNAME", <<"host.other.org", ".">>),
    Rec("alias.example.com", "IN", "CNAME", <<".">>),
    Rec("example.com", "IN", "MX", <<"10", " ", "mail.example.com", ".">>),
    Rec("example.com", "IN", "TXT", <<"v=spf1", " ", "include:", "www.example.com">>),
    Rec("www.example.com", "IN", "SRV", <<"mail.example.com", ".">>),
    Rec("host.other.org", "IN", "A", <<"10.0.0.5">>),
    Rec("-", "IN", "MX", <<"10", " ", "mail.example.com", ".">>),
    Rec(".", "IN", "A", <<"10.0.0.5">>),
    <<";", " ", "Transfer", " ", "failed", ".">>
}

-----------------------------------------------------------------------------
(* Collaborators of the collector: enumeration, validation and the store   *)

\* database.model.DnsResourceRecordType, by member name
DnsResourceRecordType == {"a", "aaaa", "cname", "ns", "mx", "txt", "soa", "ptr"}

\* the second-level domain of every well-formed host name of the model
DomainOf == [n \in {"www.example.com", "mail.example.com", "alias.example.com",
                    "example.com"} |-> "example.com"]
            @@ ("host.other.org" :> "other.org")

IPv4Literals == {"10.0.0.5"}
IPv6Literals == {"2001:db8::1"}

\* a well-formed host name that belongs to an in-scope domain
IsHostName(text, scope) ==
    /\ Len(text) = 1
    /\ text[1] \in DOMAIN DomainOf
    /\ DomainOf[text[1]] \in scope

\* a valid IPv4 or IPv6 address literal
IsAddress(text) == Len(text) = 1 /\ text[1] \in IPv4Literals \cup IPv6Literals

\* create-or-fetch of one row, by identity
GetOrCreate(table, row) == IF BagIn(row, table) THEN table ELSE table (+) SetToBag({row})

Log(c, message) == [c EXCEPT !.log = Append(@, message)]

\* The one element of a singleton set.  Only({e(x) : x \in {v}}) is
\* LET x == v IN e(x), with v evaluated once.
Only(S) == CHOOSE x \in S : TRUE

\* BaseCollector.add_host_name: the host name node, or None
add_host_name(c, text, scope) ==
    IF IsHostName(text, scope)
    THEN [c |-> [c EXCEPT !.host_names = GetOrCreate(@, text[1])], node |-> text[1]]
    ELSE [c |-> c, node |-> None]

\* BaseCollector.add_host: the address node, or None
add_host(c, text) ==
    IF IsAddress(text)
    THEN [c |-> [c EXCEPT !.hosts = GetOrCreate(@, text[1])], node |-> text[1]]
    ELSE [c |-> c, node |-> None]

\* BaseCollector.add_host_host_name_mapping
add_host_host_name_mapping(c, host, host_name, mapping_type) ==
    [c EXCEPT !.host_host_name_mappings =
        GetOrCreate(@, [host |-> host, host_name |-> host_name, type |-> mapping_type])]

\* BaseCollector.add_host_name_host_name_mapping
add_host_name_host_name_mapping(c, source_host_name, resolved_host_name, mapping_type) ==
    [c EXCEPT !.host_name_host_name_mappings =
        GetOrCreate(@, [source_host_name |-> source_host_name,
                        resolved_host_name |-> resolved_host_name,
                        type |-> mapping_type])]

\* DomainUtils.extract_domains: the substrings of the text that name a host
\* of an in-scope domain, in the order they occur
extract_domains(text, scope) == SelectSeq(text, LAMBDA t : IsHostName(<<t>>, scope))

-----------------------------------------------------------------------------
(* verify_results, one iteration of the loop over command.stdout_output    *)

\* lines 186-193: every extracted item is added as a host name
RECURSIVE add_extracted(_, _, _)
add_extracted(c, items, scope) ==
    IF items = << >> THEN c
    ELSE Only({add_extracted(IF r.node = None
                             THEN Log(r.c, "ignoring host name due to invalid domain")
                             ELSE r.c,
                             Tail(items), scope)
               : r \in {add_host_name(c, <<Head(items)>>, scope)}})

\* an address that is already in the store is taken for a failure
address_step_new_only(c, host_name, record_type, content) ==
    IF record_type \in {"a", "aaaa"} /\ content # << >>
    THEN Only({IF r.node = None \/ BagIn(r.node, c.hosts)
               THEN Log(r.c, "ignoring host due to invalid IP address")
               ELSE add_host_host_name_mapping(r.c, r.node, host_name, record_type)
               : r \in {add_host(c, content)}})
    ELSE c

\* lines 151-167: the address of an A or AAAA record and its mapping
address_step(c, host_name, record_type, content) ==
    IF record_type \in {"a", "aaaa"} /\ content # << >>
    THEN Only({IF r.node = None
               THEN Log(r.c, "ignoring host due to invalid IP address")
               ELSE add_host_host_name_mapping(r.c, r.node, host_name, record_type)
               : r \in {add_host(c, content)}})
    ELSE c

\* lines 185-193: the else branch of the CNAME test
extract_step(c, record_type, content, scope) ==
    add_extracted([c EXCEPT !.extract_calls =
                        Append(@, [record_type |-> record_type, content |-> content])],
                  extract_domains(content, scope), scope)

\* the target is looked up, not created
cname_step_fetch_only(c, host_name, record_type, content, scope) ==
    IF record_type = "cname" /\ content # << >>
    THEN IF IsHostName(content, scope) /\ BagIn(content[1], c.host_names)
         THEN add_host_name_host_name_mapping(c, host_name, content[1], "cname")
         ELSE Log(c, "ignoring host name due to invalid domain")
    ELSE extract_step(c, record_type, content, scope)

\* the alias is recorded without the test of the target
cname_step_unchecked(c, host_name, record_type, content, scope) ==
    IF record_type = "cname" /\ content # << >>
    THEN Only({add_host_name_host_name_mapping(r.c, host_name, r.node, "cname")
               : r \in {add_host_name(c, content, scope)}})
    ELSE extract_step(c, record_type, content, scope)

\* a CNAME record with a rejected target falls through to the extraction
cname_step_fallthrough(c, host_name, record_type, content, scope) ==
    IF record_type = "cname" /\ content # << >> /\ IsHostName(content, scope)
    THEN Only({add_host_name_host_name_mapping(r.c, host_name, r.node, "cname")
               : r \in {add_host_name(c, content, scope)}})
    ELSE extract_step(c, record_type, content, scope)

\* lines 168-193: the alias of a CNAME record, else the free-text extraction
cname_step(c, host_name, record_type, content, scope) ==
    IF record_type = "cname" /\ content # << >>
    THEN Only({IF r.node # None
               THEN add_host_name_host_name_mapping(r.c, host_name, r.node, "cname")
               ELSE Log(r.c, "ignoring host name due to invalid domain")
               : r \in {add_host_name(c, content, scope)}})
    ELSE extract_step(c, record_type, content, scope)

\* lines 150-195: the steps that follow the resolution r of the owner
owner_steps(r, record_type, content, scope) ==
    IF r.node # None
    THEN Only({cname_step(a, r.node, record_type, content, scope)
               : a \in {address_step(r.c, r.node, record_type, content)}})
    ELSE Log(r.c, "ignoring host name due to invalid domain")

\* the owner is resolved before the record type is looked up
record_step_owner_first(c, host_name_str, record_type_str, content, scope) ==
    Only({IF record_type_str \notin DnsResourceRecordType
          THEN Log(r.c, "KeyError")
          ELSE owner_steps(r, record_type_str, content, scope)
          : r \in {add_host_name(c, host_name_str, scope)}})

\* the result of the owner resolution is not tested
record_step_ignore_owner(c, host_name_str, record_type_str, content, scope) ==
    IF record_type_str \notin DnsResourceRecordType
    THEN Log(c, "KeyError")
    ELSE Only({Only({cname_step(a, r.node, record_type_str, content, scope)
                     : a \in {address_step(r.c, r.node, record_type_str, content)}})
               : r \in {add_host_name(c, host_name_str, scope)}})

\* lines 143-197: the try block
record_step(c, host_name_str, record_type_str, content, scope) ==
    IF record_type_str \notin DnsResourceRecordType
    THEN Log(c, "KeyError")
    ELSE Only({owner_steps(r, record_type_str, content, scope)
               : r \in {add_host_name(c, host_name_str, scope)}})

\* lines 140-142: the three groups of a match m, stripped
group_hostname(m) == Strip(m.hostname, DotSpace)
group_type(m) ==
    Only({IF t = << >> THEN "" ELSE Lower(t[1]) : t \in {Strip(m.type, Whitespace)}})
group_content(m) == Strip(Strip(m.content, Whitespace), DotSpace)

host_name_str(line) == group_hostname(re_entry(line))
record_type_str(line) == group_type(re_entry(line))
content_str(line) == group_content(re_entry(line))

\* lines 139-197: the record of a match
match_step(c, m, scope) ==
    Only({record_step(c, f[1], f[2], f[3], scope)
          : f \in {<<group_hostname(m), group_type(m), group_content(m)>>}})

\* a line that does not match is reported
verify_line_logging(c, line, scope) ==
    Only({IF m.matched THEN match_step(c, m, scope) ELSE Log(c, "ignoring line")
          : m \in {re_entry(line)}})

\* lines 138-197: the body of the loop
verify_line(c, line, scope) ==
    Only({IF m.matched THEN match_step(c, m, scope) ELSE c
          : m \in {re_entry(line)}})

-----------------------------------------------------------------------------
(* State                                                                   *)

VARIABLES
    stdout_output,                  \* command.stdout_output: the lines of the output
    scope,                          \* the in-scope domains of the workspace
    host_names,                     \* store: host name nodes
    hosts,                          \* store: address nodes
    host_host_name_mappings,        \* store: host-to-address edges
    host_name_host_name_mappings,   \* store: alias edges
    log,                            \* records emitted to the logger
    extract_calls,                  \* the calls of extract_domains so far
    hide,                           \* command.hide
    pc,                             \* "idle", "loop" (inside verify_results) or "done"
    i,                              \* position of the loop in stdout_output
    runs,                           \* completed runs of verify_results
    start,                          \* the graph before the first run
    once                            \* the graph after the first run

vars == <<stdout_output, scope, host_names, hosts, host_host_name_mappings,
          host_name_host_name_mappings, log, extract_calls, hide, pc, i, runs,
          start, once>>

Graph == [host_names |-> host_names,
          hosts |-> hosts,
          host_host_name_mappings |-> host_host_name_mappings,
          host_name_host_name_mappings |-> host_name_host_name_mappings]

Ctx == [host_names |-> host_names,
        hosts |-> hosts,
        host_host_name_mappings |-> host_host_name_mappings,
        host_name_host_name_mappings |-> host_name_host_name_mappings,
        log |-> log,
        extract_calls |-> extract_calls]

EmptyGraph == [host_names |-> EmptyBag, hosts |-> EmptyBag,
               host_host_name_mappings |-> EmptyBag,
               host_name_host_name_mappings |-> EmptyBag]

\* graphs left by earlier collectors
StartGraphs == {
    EmptyGraph,
    [host_names |-> SetToBag({"www.example.com"}),
     hosts |-> SetToBag({"10.0.0.5"}),
     host_host_name_mappings |->
        SetToBag({[host |-> "10.0.0.5", host_name |-> "www.example.com", type |-> "a"]}),
     host_name_host_name_mappings |-> EmptyBag]
}

Scopes == {{"example.com"}, {"example.com", "other.org"}}

Outputs == UNION {[1..n -> Lines] : n \in 0..MaxLines}

Init ==
    /\ stdout_output \in Outputs
    /\ scope \in Scopes
    /\ \E g \in StartGraphs :
        /\ host_names = g.host_names
        /\ hosts = g.hosts
        /\ host_host_name_mappings = g.host_host_name_mappings
        /\ host_name_host_name_mappings = g.host_name_host_name_mappings
        /\ start = g
        /\ once = g
    /\ log = << >>
    /\ extract_calls = << >>
    /\ hide = FALSE
    /\ pc = "idle"
    /\ i = 0
    /\ runs = 0

\* the record type of the line is no member of DnsResourceRecordType
RaisesKeyError(line) ==
    re_entry(line).matched /\ record_type_str(line) \notin DnsResourceRecordType

\* the try block encloses the loop: a KeyError ends it
loop_exit_on_error(k) ==
    \/ k > Len(stdout_output)
    \/ k > 1 /\ RaisesKeyError(stdout_output[k - 1])

\* line 137: the for loop is exhausted
loop_exit(k) == k > Len(stdout_output)

\* lines 136-137: verify_results is called on the command
Enter ==
    /\ pc \in {"idle", "done"}
    /\ runs < MaxRuns
    /\ hide' = TRUE
    /\ pc' = "loop"
    /\ i' = 1
    /\ UNCHANGED <<stdout_output, scope, host_names, hosts, host_host_name_mappings,
                   host_name_host_name_mappings, log, extract_calls, runs, start, once>>

\* lines 137-197: one iteration of the loop
Iterate ==
    /\ pc = "loop"
    /\ ~loop_exit(i)
    /\ \E c \in {verify_line(Ctx, stdout_output[i], scope)} :
          /\ host_names' = c.host_names
          /\ hosts' = c.hosts
          /\ host_host_name_mappings' = c.host_host_name_mappings
          /\ host_name_host_name_mappings' = c.host_name_host_name_mappings
          /\ log' = c.log
          /\ extract_calls' = c.extract_calls
    /\ i' = i + 1
    /\ UNCHANGED <<stdout_output, scope, hide, pc, runs, start, once>>

\* line 197: the loop is over and verify_results returns
Return ==
    /\ pc = "loop"
    /\ loop_exit(i)
    /\ pc' = "done"
    /\ runs' = runs + 1
    /\ once' = IF runs = 0 THEN Graph ELSE once
    /\ UNCHANGED <<stdout_output, scope, host_names, hosts, host_host_name_mappings,
                   host_name_host_name_mappings, log, extract_calls, hide, i, start>>

Next == Enter \/ Iterate \/ Return

Spec == Init /\ [][Next]_vars

\* a step of the loop of verify_results
Running == Iterate \/ Return

\* a call of verify_results runs to completion: no suspension point in the loop
LiveSpec == Spec /\ WF_vars(Running)

-----------------------------------------------------------------------------
(* Vocabulary of the properties                                            *)

\* the loop is about to process the line stdout_output[i]
AtLine == pc = "loop" /\ i <= Len(stdout_output)
Cur == stdout_output[i]

\* the loop has just processed the line stdout_output[i - 1]
AfterLine == pc = "loop" /\ i > 1
Prev == stdout_output[i - 1]

OwnerValid(line) == IsHostName(host_name_str(line), scope)
Owner(line) == host_name_str(line)[1]
KnownType(line) == record_type_str(line) \in DnsResourceRecordType

\* the content of an A, AAAA or CNAME record is rejected by its validation
ContentRejected(line) ==
    \/ record_type_str(line) \in {"a", "aaaa"} /\ ~IsAddress(content_str(line))
    \/ record_type_str(line) = "cname" /\ ~IsHostName(content_str(line), scope)

\* a line with a per-line problem
BadLine(line) ==
    \/ ~Matches(line)
    \/ ~KnownType(line)
    \/ ~OwnerValid(line)
    \/ ContentRejected(line)

Tables == {"host_names", "hosts", "host_host_name_mappings", "host_name_host_name_mappings"}

\* the nodes and edges of a graph, without their multiplicity
Rows(g) == [t \in Tables |-> BagToSet(g[t])]

CtxOf(g) == [host_names |-> g.host_names,
             hosts |-> g.hosts,
             host_host_name_mappings |-> g.host_host_name_mappings,
             host_name_host_name_mappings |-> g.host_name_host_name_mappings,
             log |-> << >>,
             extract_calls |-> << >>]

\* lines 137-197: the whole loop over a list of lines
RECURSIVE run_over(_, _, _)
run_over(c, lines, sc) ==
    IF lines = << >> THEN c
    ELSE run_over(verify_line(c, Head(lines), sc), Tail(lines), sc)

Permutations_(n) == {p \in [1..n -> 1..n] : \A a, b \in 1..n : a # b => p[a] # p[b]}
Permuted(lines, p) == [k \in 1..Len(lines) |-> lines[p[k]]]

-----------------------------------------------------------------------------
(* C1 *)

-----------------------------------------------------------------------------
(* C2 *)

-----------------------------------------------------------------------------
(* C3 *)

\* C3: once verify_results has run over the output, running it again over
\* the same output adds no node and no edge: throughout every later run the
\* four tables are, row for row and copy for copy, what the first run left.
C3_Idempotent == runs >= 1 => Graph = once

C3_Witness ==
    /\ pc = "done"
    /\ runs = 2
    /\ Rows(Graph) # Rows(start)
    /\ \E r \in BagToSet(host_name_host_name_mappings) : TRUE
    /\ \E r \in BagToSet(host_host_name_mappings) : TRUE

-----------------------------------------------------------------------------
(* C4 *)

\* C4: when verify_results has returned, the nodes and edges of the graph
\* are those that the loop leaves when it runs, from the same starting graph
\* and the same in-scope domains, over any permutation of the lines.
C4_OrderIndependent ==
    pc = "done" =>
        \A p \in Permutations_(Len(stdout_output)) :
            Rows(Graph) = Rows(run_over(CtxOf(start), Permuted(stdout_output, p), scope))

C4_Witness ==
    /\ pc = "done"
    /\ Len(stdout_output) >= 2
    /\ stdout_output[1] # stdout_output[2]
    /\ Rows(run_over(CtxOf(start), <<stdout_output[1]>>, scope)) # Rows(start)
    /\ Rows(run_over(CtxOf(start), <<stdout_output[2]>>, scope)) # Rows(start)
    /\ Rows(run_over(CtxOf(start), <<stdout_output[1]>>, scope))
         # Rows(run_over(CtxOf(start), <<stdout_output[2]>>, scope))

-----------------------------------------------------------------------------
(* C5 *)

-----------------------------------------------------------------------------
(* C6 *)

\* C6: a matching line of type A, AAAA or CNAME with a valid in-scope owner
\* and a content that validation rejects (no address literal for A and AAAA,
\* no valid in-scope host name for CNAME) leaves the owner as a host name
\* node and adds no address node, no host-to-address edge and no alias edge.
C6_OwnerKeptNoEdge ==
    [][(AtLine /\ Matches(Cur) /\ OwnerValid(Cur) /\ ContentRejected(Cur)) =>
        /\ BagIn(Owner(Cur), host_names')
        /\ hosts' = hosts
        /\ host_host_name_mappings' = host_host_name_mappings
        /\ host_name_host_name_mappings' = host_name_host_name_mappings]_vars

C6_Witness ==
    /\ AfterLine
    /\ Matches(Prev) /\ OwnerValid(Prev) /\ ContentRejected(Prev)
    /\ record_type_str(Prev) = "cname"
    /\ content_str(Prev) # << >>
    /\ BagIn(Owner(Prev), host_names)
    /\ ~BagIn(Owner(Prev), start.host_names)

-----------------------------------------------------------------------------
(* C7 *)

\* what a line adds to an empty graph is in the graph
Contributed(line) ==
    \E alone \in {Rows(run_over(CtxOf(EmptyGraph), <<line>>, scope))} :
        \A t \in Tables : alone[t] \subseteq BagToSet(Graph[t])

\* C7: every call of verify_results returns, after the last line, and the
\* graph then holds what every line of the output contributes, whatever
\* per-line problems the lines before it had.
C7_NeverAborts ==
    (pc = "loop") ~>
        (/\ pc = "done"
         /\ i = Len(stdout_output) + 1
         /\ \A k \in 1..Len(stdout_output) : Contributed(stdout_output[k]))

C7_Witness ==
    /\ pc = "done"
    /\ \E j, k \in 1..Len(stdout_output) :
        /\ j < k
        /\ BadLine(stdout_output[j])
        /\ ~BadLine(stdout_output[k])
        /\ ~BagIn(Owner(stdout_output[k]), start.host_names)
        /\ BagIn(Owner(stdout_output[k]), host_names)
        /\ Contributed(stdout_output[k])

-----------------------------------------------------------------------------
(* C8 *)

\* C8 as claimed: every host-to-address edge of type A points at an IPv4
\* address and every edge of type AAAA at an IPv6 address.
C8_FamilyMatchesType ==
    \A m \in BagToSet(host_host_name_mappings) :
        /\ m.type = "a" => m.host \in IPv4Literals
        /\ m.type = "aaaa" => m.host \in IPv6Literals

-----------------------------------------------------------------------------
(* C9 *)

\* C9 as claimed: extract_domains is called only for records of a recognized
\* type other than A, AAAA and CNAME; an A or AAAA record adds no host name
\* node other than its owner; a record of another type adds no edge.
C9_TypeRouting ==
    [][(AtLine /\ Matches(Cur)) =>
        /\ extract_calls' # extract_calls =>
              record_type_str(Cur) \in DnsResourceRecordType \ {"a", "aaaa", "cname"}
        /\ (record_type_str(Cur) \in {"a", "aaaa"} /\ OwnerValid(Cur)) =>
              BagToSet(host_names') \subseteq BagToSet(host_names) \cup {Owner(Cur)}
        /\ record_type_str(Cur) \in DnsResourceRecordType \ {"a", "aaaa", "cname"} =>
              /\ host_host_name_mappings' = host_host_name_mappings
              /\ host_name_host_name_mappings' = host_name_host_name_mappings]_vars

-----------------------------------------------------------------------------
(* C10 *)

\* C10: a matching line whose owner is rejected by the host name validation
\* leaves the whole graph unchanged: no host name node, no address node, no
\* edge, and extract_domains is not called on its content.
C10_InvalidOwnerNoMutation ==
    [][(AtLine /\ Matches(Cur) /\ ~OwnerValid(Cur)) =>
        /\ Graph' = Graph
        /\ extract_calls' = extract_calls]_vars

C10_Witness ==
    /\ AfterLine
    /\ Matches(Prev) /\ ~OwnerValid(Prev) /\ KnownType(Prev)
    /\ IsAddress(content_str(Prev))
    /\ ~BagIn(content_str(Prev)[1], hosts)
    /\ log # << >> /\ log[Len(log)] = "ignoring host name due to invalid domain"

====
